---- MODULE Spec2Model ----
(***************************************************************************)
(* Model of src/main.py: the YouTube -> Notion incremental sync.           *)
(*                                                                         *)
(* A run of main() is a sequence of steps, one per external call (record   *)
(* store query, platform API call, record store write); the local          *)
(* computation that follows a call up to the next call belongs to the      *)
(* step of that call.  Several runs follow each other against the same     *)
(* record store.  Text that the code converts (URLs, durations, channel    *)
(* names) is a sequence of one-character strings.                          *)
(***************************************************************************)
EXTENDS Integers, Sequences, FiniteSets, TLC

(***************************************************************************)
(* Bounds of the model.                                                    *)
(***************************************************************************)
\* number of runs of main() that follow each other
MaxRuns == 2
\* number of items the feed of a channel returns at most (the code asks
\* for maxResults=10)
MaxFeed == 2
\* records per page of the record store (the code asks for page_size 100;
\* scaled down so that a read spans several pages)
PageSize == 1
\* length of the texts given to parse_duration
MaxText == 6
\* the hours, and the minutes and seconds, of the encoded durations
MaxHours == 2
MaxPart == 30
\* number of records of the store read by get_channel_type_mappings
MaxStore == 3
\* number of characters of an identifier that vary, at its start or its end
MaxVaried == 3

(***************************************************************************)
(* Program constants.                                                      *)
(***************************************************************************)
\* timedelta(hours=24), main.py:261
WindowHours == 24
\* timedelta(days=7), main.py:54
LookbackDays == 7
\* duration_seconds > 300, main.py:356
MinSeconds == 300
\* {11} in the identifier pattern, main.py:183
IdLen == 11

(***************************************************************************)
(* Text.                                                                   *)
(***************************************************************************)
Digits == <<"0", "1", "2", "3", "4", "5", "6", "7", "8", "9">>

DigitSet == {Digits[k] : k \in 1..10}

DigitVal(c) == (CHOOSE k \in 1..10 : Digits[k] = c) - 1

LowerSet ==
  {"a", "b", "c", "d", "e", "f", "g", "h", "i", "j", "k", "l", "m",
   "n", "o", "p", "q", "r", "s", "t", "u", "v", "w", "x", "y", "z"}

UpperSet ==
  {"A", "B", "C", "D", "E", "F", "G", "H", "I", "J", "K", "L", "M",
   "N", "O", "P", "Q", "R", "S", "T", "U", "V", "W", "X", "Y", "Z"}

\* the character class [a-zA-Z0-9_-]
IdChars == LowerSet \cup UpperSet \cup DigitSet \cup {"_", "-"}

\* s[from..], the empty text when from is past the end
Drop(s, from) == IF from > Len(s) THEN << >> ELSE SubSeq(s, from, Len(s))

\* str.strip(): leading and trailing blanks removed
RECURSIVE LStrip(_)
LStrip(s) == IF s # << >> /\ Head(s) = " " THEN LStrip(Tail(s)) ELSE s

RECURSIVE RStrip(_)
RStrip(s) ==
  IF s # << >> /\ s[Len(s)] = " " THEN RStrip(SubSeq(s, 1, Len(s) - 1)) ELSE s

Strip(s) == RStrip(LStrip(s))

(***************************************************************************)
(* parse_duration: re.match(r'PT(?:(\d+)H)?(?:(\d+)M)?(?:(\d+)S)?', s).    *)
(* The match is anchored at the start only; each optional group matches    *)
(* when a non-empty run of digits is directly followed by its letter.      *)
(***************************************************************************)
\* the number of leading digits of s
RECURSIVE DigitRun(_)
DigitRun(s) ==
  IF s # << >> /\ Head(s) \in DigitSet THEN 1 + DigitRun(Tail(s)) ELSE 0

\* int() of a text of digits
RECURSIVE IntOf(_)
IntOf(s) ==
  IF s = << >> THEN 0
  ELSE 10 * IntOf(SubSeq(s, 1, Len(s) - 1)) + DigitVal(s[Len(s)])

\* the letter after the digits not looked at
Component_anyLetter(s, letter) ==
  LET n == DigitRun(s)
  IN  IF n > 0 /\ n < Len(s)
      THEN [val |-> IntOf(SubSeq(s, 1, n)), rest |-> Drop(s, n + 2)]
      ELSE [val |-> -1, rest |-> s]

\* one group (?:(\d+)X)? tried at the head of s: the value of the group
\* (-1 stands for None) and the text left after it
Component(s, letter) ==
  LET n == DigitRun(s)
  IN  IF n > 0 /\ n < Len(s) /\ s[n + 1] = letter
      THEN [val |-> IntOf(SubSeq(s, 1, n)), rest |-> Drop(s, n + 2)]
      ELSE [val |-> -1, rest |-> s]

\* "if hours:" is false for None; int() of the digits is added otherwise
Part(val, unit) == IF val = -1 THEN 0 ELSE val * unit

parse_duration(duration_str) ==
  IF duration_str = << >> THEN 0
  ELSE IF ~(Len(duration_str) >= 2 /\ duration_str[1] = "P"
                                   /\ duration_str[2] = "T") THEN 0
  ELSE LET h == Component(Drop(duration_str, 3), "H")
           m == Component(h.rest, "M")
           s == Component(m.rest, "S")
       IN  Part(h.val, 3600) + Part(m.val, 60) + Part(s.val, 1)

\* str() of a non-negative integer
RECURSIVE ToText(_)
ToText(n) ==
  IF n < 10 THEN <<Digits[n + 1]>>
  ELSE ToText(n \div 10) \o <<Digits[(n % 10) + 1]>>

\* one component of the format PT#H#M#S of the docstring (lines 200-203);
\* -1 stands for a component left out
Group(val, letter) == IF val = -1 THEN << >> ELSE ToText(val) \o <<letter>>

\* the encoding "PT1H2M3S" of hours, minutes and seconds
Encode(parts) ==
  <<"P", "T">> \o Group(parts[1], "H") \o Group(parts[2], "M")
               \o Group(parts[3], "S")

\* round(seconds / 60, 2), in hundredths of a minute.  seconds * 100 / 60
\* is never half way between two integers, so rounding is to the nearest.
calculate_duration_decimal(seconds) ==
  IF seconds = 0 THEN 0 ELSE (10 * seconds + 3) \div 6

(***************************************************************************)
(* Identifier extraction of get_existing_video_ids:                        *)
(* re.search(r'(?:v=|/)([a-zA-Z0-9_-]{11})', video_url).group(1)           *)
(***************************************************************************)
\* the IdLen characters of url from position p are all identifier characters
IdAt(url, p) ==
  /\ p + IdLen - 1 <= Len(url)
  /\ \A k \in p..(p + IdLen - 1) : url[k] \in IdChars

\* the pattern matches with its first character at position p
MatchAt(url, p) ==
  \/ /\ p + 1 <= Len(url)
     /\ url[p] = "v"
     /\ url[p + 1] = "="
     /\ IdAt(url, p + 2)
  \/ /\ url[p] = "/"
     /\ IdAt(url, p + 1)

\* the captured group of the leftmost match, << >> when there is no match
ExtractVideoId(url) ==
  LET hits == {p \in 1..Len(url) : MatchAt(url, p)}
  IN  IF hits = {} THEN << >>
      ELSE LET p == CHOOSE q \in hits : \A r \in hits : q <= r
           IN  IF url[p] = "/" THEN SubSeq(url, p + 1, p + IdLen)
               ELSE SubSeq(url, p + 2, p + 1 + IdLen)

\* the URL without the key of the video parameter
WatchPrefix_noKey ==
  <<"h", "t", "t", "p", "s", ":", "/", "/", "w", "w", "w", ".",
    "y", "o", "u", "t", "u", "b", "e", ".", "c", "o", "m", "/",
    "w", "a", "t", "c", "h", "?">>

\* f"https://www.youtube.com/watch?v={video['video_id']}"
WatchPrefix ==
  <<"h", "t", "t", "p", "s", ":", "/", "/", "w", "w", "w", ".",
    "y", "o", "u", "t", "u", "b", "e", ".", "c", "o", "m", "/",
    "w", "a", "t", "c", "h", "?", "v", "=">>

WatchUrl(video_id) == WatchPrefix \o video_id

(***************************************************************************)
(* The environment: the videos of the platform, the configurations of a    *)
(* run, the initial content of the record store.                           *)
(***************************************************************************)
Foo == <<"F", "o", "o">>

Bar == <<"B", "a", "r">>

Tech == <<"T", "e", "c", "h">>

\* what the platform knows of a video: the snippet of its feed item
\* (publishedAt in hours)
Video1 ==
  [videoId |-> <<"d", "Q", "w", "4", "w", "9", "W", "g", "X", "c", "Q">>,
   title |-> "t1", channelTitle |-> Foo, publishedAt |-> 0]

Video2 ==
  [videoId |-> <<"a", "-", "_", "9", "Z", "z", "0", "b", "B", "-", "_">>,
   title |-> "t2", channelTitle |-> Bar, publishedAt |-> 1]

Snippets == {Video1, Video2}

\* the feeds a channel can return: up to MaxFeed items, no item twice, in
\* any order
Feeds ==
  {f \in UNION {[1..n -> Snippets] : n \in 0..MaxFeed} :
     \A a, b \in 1..Len(f) : a # b => f[a] # f[b]}

\* contentDetails.duration values of the detail lookup
Durations ==
  {<<"P", "T", "5", "M">>,
   <<"P", "T", "5", "M", "1", "S">>,
   << >>}

\* the moments (in hours) at which a run can take place
Clocks == {1, 24, 25}

\* the environment of a run: which credentials are set, what channels.txt
\* holds
FullConfig ==
  [YOUTUBE_API_KEY |-> TRUE, NOTION_TOKEN |-> TRUE, NOTION_DB_ID |-> TRUE,
   CHANNEL_IDS |-> <<"UC1", "UC2">>]

Configs ==
  {FullConfig,
   [FullConfig EXCEPT !.YOUTUBE_API_KEY = FALSE],
   [FullConfig EXCEPT !.NOTION_TOKEN = FALSE],
   [FullConfig EXCEPT !.NOTION_DB_ID = FALSE],
   [FullConfig EXCEPT !.CHANNEL_IDS = << >>]}

\* a record added by hand: no URL, a channel name with blanks around it
ManualRecord ==
  [Title |-> "manual", URL |-> << >>, Channel |-> <<" ", "F", "o", "o">>,
   Date |-> 0, Length |-> 0, Type |-> Tech]

InitStores == {<< >>, <<ManualRecord>>}

\* next_cursor of a response without a further page (None)
NoCursor == 0

NoCall == [api |-> "none", outcome |-> "none"]

NoCalls == [query |-> 0, create |-> 0, platform |-> 0]

\* no answer of the platform at hand
NoAnswer == << >>

\* the duration codec has no input
NoInput == [raw |-> << >>, parts |-> << >>, decoded |-> -1]

(***************************************************************************)
(* State.                                                                  *)
(***************************************************************************)
VARIABLES
  pc,                 \* position of main()
  run,                \* number of runs started
  cfg,                \* credentials and CHANNEL_IDS of the run
  clock,              \* datetime.now() of the run, in hours
  store,              \* the records of the record store, in creation order
  channel_type_map,   \* get_channel_type_mappings: channel name -> type
  existing_video_ids, \* the seen set of main()
  has_more,           \* pagination of the read in progress
  next_cursor,
  i,                  \* index of the channel in CHANNEL_IDS (from 1)
  new_video_ids,      \* get_last_24h_videos_with_duration: the candidates
  video_snippets,
  videos,             \* the qualified videos handed to the writer
  w,                  \* add_videos_to_notion_batch: index of the next video
  success_count,
  failed_count,
  total_success,
  total_failed,
  api_calls_made,
  created,            \* history: identifiers stored by writes of all runs
  escaped,            \* history: an exception has left main() in some run
  attempts,           \* history: the writes attempted by this run
  prefetched,         \* history: result of get_existing_video_ids
  last,               \* history: the last external call and its outcome
  calls,              \* history: external calls of this run, by kind
  answer,             \* history: the feed or the details the last call gave
  origin,             \* history: how the run started (identifiers stored
                      \* before it, whether the run before it was terminated)
  read_all,           \* history: get_existing_video_ids read every page
  codec               \* parse_duration on its own: input and result

vars ==
  <<pc, run, cfg, clock, store, channel_type_map, existing_video_ids,
    has_more, next_cursor, i, new_video_ids, video_snippets, videos, w,
    success_count, failed_count, total_success, total_failed,
    api_calls_made, created, escaped, attempts, prefetched, last, calls,
    answer, origin, read_all, codec>>

runVars == <<run, cfg, clock>>

readVars == <<channel_type_map, existing_video_ids, has_more, next_cursor>>

listerVars == <<new_video_ids, video_snippets>>

writerVars == <<videos, w, success_count, failed_count>>

totalVars == <<total_success, total_failed>>

\* the state of the program before its first run, the store apart
Fresh ==
  /\ pc = "idle"
  /\ run = 0
  /\ cfg = FullConfig
  /\ clock = 1
  /\ channel_type_map = << >>
  /\ existing_video_ids = {}
  /\ has_more = FALSE
  /\ next_cursor = NoCursor
  /\ i = 0
  /\ new_video_ids = << >>
  /\ video_snippets = << >>
  /\ videos = << >>
  /\ w = 0
  /\ success_count = 0
  /\ failed_count = 0
  /\ total_success = 0
  /\ total_failed = 0
  /\ api_calls_made = 0
  /\ created = << >>
  /\ escaped = FALSE
  /\ attempts = << >>
  /\ prefetched = {}
  /\ last = NoCall
  /\ calls = NoCalls
  /\ answer = NoAnswer
  /\ origin = [ids |-> {}, resumed |-> FALSE]
  /\ read_all = FALSE

\* the state of the program before its first run
Constructed ==
  /\ Fresh
  /\ store \in InitStores

Init ==
  /\ Constructed
  /\ codec = NoInput

Called(kind, api, outcome) ==
  /\ calls' = [calls EXCEPT ![kind] = @ + 1]
  /\ last' = [api |-> api, outcome |-> outcome]

(***************************************************************************)
(* main(), lines 473-496: validation and set-up.                           *)
(***************************************************************************)
\* the check of NOTION_DB_ID left out
CredentialsPresent_noStoreId(c) == c.YOUTUBE_API_KEY /\ c.NOTION_TOKEN

\* the three "if not X: return" of lines 474-482
CredentialsPresent(c) ==
  c.YOUTUBE_API_KEY /\ c.NOTION_TOKEN /\ c.NOTION_DB_ID

\* A process starts and main() checks its credentials.
StartRun ==
  /\ pc \in {"idle", "done", "halted", "aborted", "killed"}
  /\ run < MaxRuns
  /\ \E c \in Configs, t \in Clocks :
       /\ t >= clock
       /\ cfg' = c
       /\ clock' = t
       /\ pc' = IF CredentialsPresent(c) THEN "build" ELSE "halted"
  /\ run' = run + 1
  /\ channel_type_map' = << >>
  /\ existing_video_ids' = {}
  /\ has_more' = FALSE
  /\ next_cursor' = NoCursor
  /\ i' = 0
  /\ new_video_ids' = << >>
  /\ video_snippets' = << >>
  /\ videos' = << >>
  /\ w' = 0
  /\ success_count' = 0
  /\ failed_count' = 0
  /\ total_success' = 0
  /\ total_failed' = 0
  /\ api_calls_made' = 0
  /\ attempts' = << >>
  /\ prefetched' = {}
  /\ last' = NoCall
  /\ calls' = NoCalls
  /\ answer' = NoAnswer
  /\ origin' = [ids |-> {created[k] : k \in 1..Len(created)},
                resumed |-> pc = "killed"]
  /\ read_all' = FALSE
  /\ UNCHANGED <<store, created, escaped, codec>>

\* build("youtube", "v3", ...) constructs the client; then the channel list
\* is checked and get_channel_type_mappings starts (lines 485-500, 48-50).
BuildService ==
  /\ pc = "build"
  /\ \E built \in BOOLEAN :
       pc' = IF built /\ cfg.CHANNEL_IDS # << >> THEN "map" ELSE "halted"
  /\ has_more' = TRUE
  /\ next_cursor' = NoCursor
  /\ channel_type_map' = << >>
  /\ UNCHANGED <<runVars, store, existing_video_ids, i, listerVars,
                 writerVars, totalVars, api_calls_made, created, escaped,
                 attempts, prefetched, last, calls, answer, origin,
                 read_all, codec>>

(***************************************************************************)
(* The record store: the query endpoint and the two paginated reads.       *)
(***************************************************************************)
Min(a, b) == IF a <= b THEN a ELSE b

\* the page the store returns for a query whose filter selects `records`:
\* PageSize records from the cursor, has_more and next_cursor
QueryPage(records, cursor) ==
  LET start == IF cursor = NoCursor THEN 1 ELSE cursor
      end == Min(start + PageSize - 1, Len(records))
  IN  [results |-> SubSeq(records, start, end),
       has_more |-> end < Len(records),
       next_cursor |-> IF end < Len(records) THEN end + 1 ELSE NoCursor]

\* the filter of get_channel_type_mappings (lines 65-89): Date on or after
\* the day of one week ago, Type not empty, Channel not empty
MappingFilter(r, now) ==
  /\ r.Date >= ((now - 24 * LookbackDays) \div 24) * 24
  /\ "Type" \in DOMAIN r
  /\ r.Channel # << >>

MappingRecords(now) == SelectSeq(store, LAMBDA r : MappingFilter(r, now))

\* a name that has a mapping keeps it
RECURSIVE AddMappings_keepingFirst(_, _)
AddMappings_keepingFirst(map, results) ==
  IF results = << >> THEN map
  ELSE LET r == Head(results)
           channel_name == Strip(r.Channel)
           type_value == IF "Type" \in DOMAIN r THEN Strip(r.Type) ELSE << >>
       IN  AddMappings_keepingFirst(
             IF channel_name # << >> /\ type_value # << >>
             THEN map @@ (channel_name :> type_value)
             ELSE map,
             Tail(results))

\* lines 108-126: the mappings of one page, added in the order of the page
RECURSIVE AddMappings(_, _)
AddMappings(map, results) ==
  IF results = << >> THEN map
  ELSE LET r == Head(results)
           channel_name == Strip(r.Channel)
           type_value == IF "Type" \in DOMAIN r THEN Strip(r.Type) ELSE << >>
       IN  AddMappings(IF channel_name # << >> /\ type_value # << >>
                       THEN (channel_name :> type_value) @@ map
                       ELSE map,
                       Tail(results))

\* no identifier taken from the records of a page
AddIds_none(ids, results) == ids

\* lines 178-185: the identifiers of one page
RECURSIVE AddIds(_, _)
AddIds(ids, results) ==
  IF results = << >> THEN ids
  ELSE LET r == Head(results)
           found == IF r.URL # << >> THEN ExtractVideoId(r.URL) ELSE << >>
       IN  AddIds(IF found # << >> THEN ids \cup {found} ELSE ids,
                  Tail(results))

\* get_channel_type_mappings returns; get_existing_video_ids starts
\* (lines 136-138, 148-150)
MappingsReturn ==
  /\ pc' = "ids"
  /\ has_more' = TRUE
  /\ next_cursor' = NoCursor
  /\ existing_video_ids' = {}

\* One iteration of the loop of get_channel_type_mappings (lines 56-134).
FetchMappingsPage ==
  /\ pc = "map"
  /\ \E ok \in BOOLEAN :
       /\ Called("query", "mappings", IF ok THEN "ok" ELSE "error")
       /\ IF ok
          THEN LET page == QueryPage(MappingRecords(clock), next_cursor)
               IN  /\ channel_type_map' =
                        AddMappings(channel_type_map, page.results)
                   /\ IF page.has_more
                      THEN /\ pc' = "map"
                           /\ has_more' = TRUE
                           /\ next_cursor' = page.next_cursor
                           /\ UNCHANGED existing_video_ids
                      ELSE MappingsReturn
          ELSE /\ UNCHANGED channel_type_map
               /\ MappingsReturn
  /\ answer' = NoAnswer
  /\ UNCHANGED <<runVars, store, i, listerVars, writerVars, totalVars,
                 api_calls_made, created, escaped, attempts, prefetched,
                 origin, read_all, codec>>

\* get_existing_video_ids returns `ids`; main() enters its loop
\* (lines 195-196, 504-511)
IdsReturn(ids) ==
  /\ existing_video_ids' = ids
  /\ prefetched' = ids
  /\ pc' = "resolve"
  /\ i' = 1
  /\ has_more' = FALSE
  /\ next_cursor' = NoCursor

\* the identifiers read so far dropped when a page fails
FetchIdsPage_discarding ==
  /\ pc = "ids"
  /\ \E ok \in BOOLEAN :
       /\ Called("query", "ids", IF ok THEN "ok" ELSE "error")
       /\ IF ok
          THEN LET page == QueryPage(store, next_cursor)
                   ids == AddIds(existing_video_ids, page.results)
               IN  IF page.has_more
                   THEN /\ pc' = "ids"
                        /\ existing_video_ids' = ids
                        /\ has_more' = TRUE
                        /\ next_cursor' = page.next_cursor
                        /\ UNCHANGED <<i, prefetched>>
                   ELSE IdsReturn(ids)
          ELSE IdsReturn({})
       /\ read_all' = (ok /\ pc' = "resolve")
  /\ answer' = NoAnswer
  /\ UNCHANGED <<runVars, store, channel_type_map, listerVars, writerVars,
                 totalVars, api_calls_made, created, escaped, attempts,
                 origin, codec>>

\* One iteration of the loop of get_existing_video_ids (lines 152-193).
FetchIdsPage ==
  /\ pc = "ids"
  /\ \E ok \in BOOLEAN :
       /\ Called("query", "ids", IF ok THEN "ok" ELSE "error")
       /\ IF ok
          THEN LET page == QueryPage(store, next_cursor)
                   ids == AddIds(existing_video_ids, page.results)
               IN  IF page.has_more
                   THEN /\ pc' = "ids"
                        /\ existing_video_ids' = ids
                        /\ has_more' = TRUE
                        /\ next_cursor' = page.next_cursor
                        /\ UNCHANGED <<i, prefetched>>
                   ELSE IdsReturn(ids)
          ELSE IdsReturn(existing_video_ids)
       /\ read_all' = (ok /\ pc' = "resolve")
  /\ answer' = NoAnswer
  /\ UNCHANGED <<runVars, store, channel_type_map, listerVars, writerVars,
                 totalVars, api_calls_made, created, escaped, attempts,
                 origin, codec>>

(***************************************************************************)
(* get_last_24h_videos_with_duration (lines 246-379).                      *)
(***************************************************************************)
\* an item published before `since` passed over, the scan going on
RECURSIVE Candidates_skipping(_, _, _)
Candidates_skipping(items, existing, since) ==
  IF items = << >> THEN << >>
  ELSE LET item == Head(items)
           rest == Candidates_skipping(Tail(items), existing, since)
       IN  IF item.publishedAt >= since /\ item.videoId \notin existing
           THEN <<item>> \o rest
           ELSE rest

\* the scan ended by an item that is already recorded
RECURSIVE Candidates_stopAtSeen(_, _, _)
Candidates_stopAtSeen(items, existing, since) ==
  IF items = << >> THEN << >>
  ELSE LET item == Head(items)
       IN  IF item.publishedAt >= since /\ item.videoId \notin existing
           THEN <<item>> \o
                Candidates_stopAtSeen(Tail(items), existing, since)
           ELSE << >>

\* lines 301-321: the items kept by the scan of the feed, which ends at the
\* first item published before `since`
RECURSIVE Candidates(_, _, _)
Candidates(items, existing, since) ==
  IF items = << >> THEN << >>
  ELSE LET item == Head(items)
       IN  IF item.publishedAt >= since
           THEN IF item.videoId \notin existing
                THEN <<item>> \o Candidates(Tail(items), existing, since)
                ELSE Candidates(Tail(items), existing, since)
           ELSE << >>

\* the answers of videos().list to a request for `ids`: items of some of
\* the requested identifiers, in any order, each with a duration
DetailResponses(ids) ==
  LET wanted == {ids[k] : k \in 1..Len(ids)}
      items == [id : wanted, duration : Durations]
  IN  {r \in UNION {[1..n -> items] : n \in 0..Len(ids)} :
         \A a, b \in 1..Len(r) : a # b => r[a].id # r[b].id}

\* the threshold itself let through
LongEnough_inclusive(duration_seconds) == duration_seconds >= MinSeconds

\* line 356
LongEnough(duration_seconds) == duration_seconds > MinSeconds

\* a candidate without an item in the response kept with a duration of 0
RECURSIVE ValidVideos_defaulting(_, _)
ValidVideos_defaulting(response, snippets) ==
  IF response = << >>
  THEN IF DOMAIN snippets = {} THEN << >>
       ELSE LET snippet == snippets[CHOOSE id \in DOMAIN snippets : TRUE]
            IN  <<[title |-> snippet.title,
                   video_id |-> snippet.videoId,
                   channel_title |-> snippet.channelTitle,
                   published_at |-> snippet.publishedAt,
                   duration_seconds |-> 0,
                   duration_decimal |-> 0]>>
  ELSE LET video == Head(response)
           duration_seconds == parse_duration(video.duration)
           snippet == snippets[video.id]
           rest == ValidVideos_defaulting(
                     Tail(response),
                     [id \in DOMAIN snippets \ {video.id} |-> snippets[id]])
       IN  IF LongEnough(duration_seconds)
           THEN <<[title |-> snippet.title,
                   video_id |-> video.id,
                   channel_title |-> snippet.channelTitle,
                   published_at |-> snippet.publishedAt,
                   duration_seconds |-> duration_seconds,
                   duration_decimal |->
                     calculate_duration_decimal(duration_seconds)]>> \o rest
           ELSE rest

\* lines 344-370: the videos of the response that are long enough
RECURSIVE ValidVideos(_, _)
ValidVideos(response, snippets) ==
  IF response = << >> THEN << >>
  ELSE LET video == Head(response)
           duration_seconds == parse_duration(video.duration)
           snippet == snippets[video.id]
           rest == ValidVideos(Tail(response), snippets)
       IN  IF LongEnough(duration_seconds)
           THEN <<[title |-> snippet.title,
                   video_id |-> video.id,
                   channel_title |-> snippet.channelTitle,
                   published_at |-> snippet.publishedAt,
                   duration_seconds |-> duration_seconds,
                   duration_decimal |->
                     calculate_duration_decimal(duration_seconds)]>> \o rest
           ELSE rest

\* the loop of main() left after its first channel
NextChannel_early ==
  /\ i' = i
  /\ pc' = "summary"
  /\ new_video_ids' = << >>
  /\ video_snippets' = << >>
  /\ videos' = << >>
  /\ w' = 0
  /\ success_count' = 0
  /\ failed_count' = 0

\* main() goes on to the next channel, or to its summary after the last
NextChannel ==
  /\ i' = IF i < Len(cfg.CHANNEL_IDS) THEN i + 1 ELSE i
  /\ pc' = IF i < Len(cfg.CHANNEL_IDS) THEN "resolve" ELSE "summary"
  /\ new_video_ids' = << >>
  /\ video_snippets' = << >>
  /\ videos' = << >>
  /\ w' = 0
  /\ success_count' = 0
  /\ failed_count' = 0

\* get_last_24h_videos_with_duration returns []: the else branch of
\* main() (lines 521, 533-534)
NoVideos ==
  /\ api_calls_made' = api_calls_made + 2
  /\ NextChannel
  /\ UNCHANGED <<existing_video_ids, totalVars>>

\* the answer without items taken for a channel
Resolved_unchecked(outcome) == outcome # "error"

\* lines 277-283: the call returned and its answer has an item
Resolved(outcome) == outcome = "ok"

\* channels().list (lines 273-283): the uploads playlist is found, or the
\* answer has no item, or the call raises
ResolveChannel ==
  /\ pc = "resolve"
  /\ \E outcome \in {"ok", "none", "error"} :
       /\ Called("platform", "channels", outcome)
       /\ IF Resolved(outcome)
          THEN /\ pc' = "feed"
               /\ UNCHANGED <<i, listerVars, writerVars, existing_video_ids,
                              totalVars, api_calls_made>>
          ELSE NoVideos
  /\ answer' = NoAnswer
  /\ UNCHANGED <<runVars, store, channel_type_map, has_more, next_cursor,
                 created, escaped, attempts, prefetched, origin, read_all,
                 codec>>

\* playlistItems().list and the scan of its items (lines 288-332)
FetchFeed ==
  /\ pc = "feed"
  /\ \/ /\ Called("platform", "playlistItems", "error")
        /\ answer' = NoAnswer
        /\ NoVideos
     \/ /\ Called("platform", "playlistItems", "ok")
        /\ \E feed \in Feeds :
             LET kept == Candidates(feed, existing_video_ids,
                                    clock - WindowHours)
             IN  /\ answer' = feed
                 /\ IF kept = << >>
                    THEN NoVideos
                    ELSE /\ pc' = "detail"
                         /\ new_video_ids' =
                              [k \in 1..Len(kept) |-> kept[k].videoId]
                         /\ video_snippets' =
                              [id \in {kept[k].videoId : k \in 1..Len(kept)}
                                 |-> CHOOSE item \in
                                       {kept[k] : k \in 1..Len(kept)} :
                                         item.videoId = id]
                         /\ UNCHANGED <<i, writerVars, existing_video_ids,
                                        totalVars, api_calls_made>>
  /\ UNCHANGED <<runVars, store, channel_type_map, has_more, next_cursor,
                 created, escaped, attempts, prefetched, origin, read_all,
                 codec>>

\* videos().list and the duration filter (lines 335-370); with videos to
\* write, main() counts the calls and enters add_videos_to_notion_batch
\* (lines 521-526, 395-396)
DetailLookup ==
  /\ pc = "detail"
  /\ \/ /\ Called("platform", "videos", "error")
        /\ answer' = NoAnswer
        /\ NoVideos
     \/ /\ Called("platform", "videos", "ok")
        /\ \E response \in DetailResponses(new_video_ids) :
             LET valid_videos == ValidVideos(response, video_snippets)
             IN  /\ answer' = response
                 /\ IF valid_videos = << >>
                    THEN NoVideos
                    ELSE /\ pc' = "write"
                         /\ videos' = valid_videos
                         /\ w' = 1
                         /\ success_count' = 0
                         /\ failed_count' = 0
                         /\ api_calls_made' = api_calls_made + 3
                         /\ UNCHANGED <<i, listerVars, existing_video_ids,
                                        totalVars>>
  /\ UNCHANGED <<runVars, store, channel_type_map, has_more, next_cursor,
                 created, escaped, attempts, prefetched, origin, read_all,
                 codec>>

(***************************************************************************)
(* add_videos_to_notion_batch (lines 381-459).                             *)
(***************************************************************************)
\* the Type property added whether or not a type was found
Properties_alwaysType(video, channel_type_mappings) ==
  LET channel_name == video.channel_title
      video_type == IF channel_name \in DOMAIN channel_type_mappings
                    THEN channel_type_mappings[channel_name]
                    ELSE << >>
  IN  [Title |-> video.title,
       URL |-> WatchUrl(video.video_id),
       Channel |-> video.channel_title,
       Date |-> video.published_at,
       Length |-> video.duration_decimal,
       Type |-> video_type]

\* lines 413-432: the properties of the record of a video; the Type
\* property is added when channel_type_mappings.get(channel_name) is truthy
Properties(video, channel_type_mappings) ==
  LET channel_name == video.channel_title
      video_type == IF channel_name \in DOMAIN channel_type_mappings
                    THEN channel_type_mappings[channel_name]
                    ELSE << >>
  IN  IF video_type # << >>
      THEN [Title |-> video.title,
            URL |-> WatchUrl(video.video_id),
            Channel |-> video.channel_title,
            Date |-> video.published_at,
            Length |-> video.duration_decimal,
            Type |-> video_type]
      ELSE [Title |-> video.title,
            URL |-> WatchUrl(video.video_id),
            Channel |-> video.channel_title,
            Date |-> video.published_at,
            Length |-> video.duration_decimal]

\* the loop left at the first failed write
AfterWrite_stopping(outcome, index, count) ==
  IF outcome = "raised" THEN "aborted"
  ELSE IF outcome = "ok" /\ index < count THEN "write" ELSE "merge"

\* where main() is after the write of video `index` of `count`: an
\* exception other than RequestException leaves the loop and main()
\* (lines 441-457), the loop goes on otherwise (line 409) and returns after
\* the last video (line 459)
AfterWrite(outcome, index, count) ==
  IF outcome = "raised" THEN "aborted"
  ELSE IF index < count THEN "write" ELSE "merge"

\* One iteration of the loop over the videos (lines 409-457).  The write
\* succeeds, or fails with a RequestException (status or transport), or
\* an exception of another kind leaves the function, the record being
\* stored or not.
WriteVideo ==
  /\ pc = "write"
  /\ LET video == videos[w]
         properties == Properties(video, channel_type_map)
     IN  \E outcome \in {"ok", "failed", "raised"}, kept \in BOOLEAN :
           /\ outcome # "raised" => kept = (outcome = "ok")
           /\ Called("create", "pages", outcome)
           /\ attempts' = Append(attempts,
                                 [ch |-> i, video_id |-> video.video_id,
                                  outcome |-> outcome,
                                  properties |-> properties])
           /\ store' = IF kept THEN Append(store, properties) ELSE store
           /\ created' = IF kept THEN Append(created, video.video_id)
                         ELSE created
           /\ success_count' = IF outcome = "ok" THEN success_count + 1
                               ELSE success_count
           /\ failed_count' = IF outcome = "failed" THEN failed_count + 1
                              ELSE failed_count
           /\ escaped' = (escaped \/ outcome = "raised")
           /\ pc' = AfterWrite(outcome, w, Len(videos))
           /\ w' = IF pc' = "write" THEN w + 1 ELSE w
  /\ answer' = NoAnswer
  /\ UNCHANGED <<runVars, channel_type_map, existing_video_ids, has_more,
                 next_cursor, i, listerVars, videos, totalVars,
                 api_calls_made, prefetched, origin, read_all, codec>>

(***************************************************************************)
(* main(), lines 526-542.                                                  *)
(***************************************************************************)
\* the identifiers of the batch not added
WithVideoIds_unmerged(existing, batch) == existing

\* the seen set replaced by the identifiers of the batch
WithVideoIds_replacing(existing, batch) ==
  {batch[k].video_id : k \in 1..Len(batch)}

\* line 532, for all videos of the batch
WithVideoIds(existing, batch) ==
  existing \cup {batch[k].video_id : k \in 1..Len(batch)}

\* the batch has returned: totals and seen set (lines 526-532)
MergeWritten ==
  /\ pc = "merge"
  /\ total_success' = total_success + success_count
  /\ total_failed' = total_failed + failed_count
  /\ existing_video_ids' = WithVideoIds(existing_video_ids, videos)
  /\ NextChannel
  /\ UNCHANGED <<runVars, store, channel_type_map, has_more, next_cursor,
                 api_calls_made, created, escaped, attempts, prefetched,
                 last, calls, answer, origin, read_all, codec>>

\* lines 536-542
Summary ==
  /\ pc = "summary"
  /\ pc' = "done"
  /\ UNCHANGED <<runVars, store, channel_type_map, existing_video_ids,
                 has_more, next_cursor, i, listerVars, writerVars,
                 totalVars, api_calls_made, created, escaped, attempts,
                 prefetched, last, calls, answer, origin, read_all, codec>>

Next ==
  \/ StartRun
  \/ BuildService
  \/ FetchMappingsPage
  \/ FetchIdsPage
  \/ ResolveChannel
  \/ FetchFeed
  \/ DetailLookup
  \/ WriteVideo
  \/ MergeWritten
  \/ Summary

Spec == Init /\ [][Next]_vars

(***************************************************************************)
(* Termination of the process.  A run is ended from outside between two    *)
(* of its external calls; the store keeps what the completed writes put    *)
(* into it, and the next run starts from scratch.                          *)
(***************************************************************************)
Running == {"build", "map", "ids", "resolve", "feed", "detail", "write",
            "merge", "summary"}

Kill ==
  /\ pc \in Running
  /\ pc' = "killed"
  /\ UNCHANGED <<runVars, store, channel_type_map, existing_video_ids,
                 has_more, next_cursor, i, listerVars, writerVars,
                 totalVars, api_calls_made, created, escaped, attempts,
                 prefetched, last, calls, answer, origin, read_all, codec>>

KillNext ==
  \/ StartRun
  \/ BuildService
  \/ FetchMappingsPage
  \/ FetchIdsPage
  \/ ResolveChannel
  \/ FetchFeed
  \/ DetailLookup
  \/ WriteVideo
  \/ MergeWritten
  \/ Summary
  \/ Kill

KillSpec == Init /\ [][KillNext]_vars

(***************************************************************************)
(* Scheduling.  The process is single-threaded and every call blocks until *)
(* it returns or raises: a step that is possible is eventually taken.      *)
(***************************************************************************)
FairSpec == Spec /\ WF_vars(Next)

(***************************************************************************)
(* get_channel_type_mappings on its own (lines 39-138): runs of main() up  *)
(* to the return of the category-map read, over a store of records made by *)
(* hand: names and categories with blanks around them or of blanks only, a *)
(* name under several categories, a record without category.               *)
(***************************************************************************)
News == <<"N", "e", "w", "s">>

Blank == <<" ">>

HandRecords ==
  {ManualRecord,
   [Title |-> "manual", URL |-> << >>, Channel |-> Foo, Date |-> 0,
    Length |-> 0, Type |-> News \o Blank],
   [Title |-> "manual", URL |-> << >>, Channel |-> Foo, Date |-> 0,
    Length |-> 0, Type |-> Blank],
   [Title |-> "manual", URL |-> << >>, Channel |-> Blank, Date |-> 0,
    Length |-> 0, Type |-> Tech],
   [Title |-> "manual", URL |-> << >>, Channel |-> Bar, Date |-> 0,
    Length |-> 0]}

HandStores == UNION {[1..n -> HandRecords] : n \in 0..MaxStore}

MapInit ==
  /\ Fresh
  /\ store \in HandStores
  /\ codec = NoInput

MapNext ==
  \/ StartRun
  \/ BuildService
  \/ FetchMappingsPage

MapSpec == MapInit /\ [][MapNext]_vars

(***************************************************************************)
(* The URL of a record on its own: the URL add_videos_to_notion_batch      *)
(* writes for an identifier (line 425), read back by the loop of           *)
(* get_existing_video_ids (lines 178-185).  The identifiers are of 11      *)
(* characters, a few of them, at the start or at the end, taken from every *)
(* kind of character an identifier has.                                    *)
(***************************************************************************)
IdAlphabet == {"a", "Z", "0", "_", "-", "v"}

Filler(n) == [k \in 1..n |-> "w"]

\* the identifiers with n characters that vary
Varied(n) ==
  UNION {{t \o Filler(IdLen - n), Filler(IdLen - n) \o t} :
           t \in [1..n -> IdAlphabet]}

Identifiers == UNION {Varied(n) : n \in 0..MaxVaried}

\* a video to write, as get_last_24h_videos_with_duration returns it
VideoOf(id) ==
  [title |-> "t", video_id |-> id, channel_title |-> Foo,
   published_at |-> 0, duration_seconds |-> 301, duration_decimal |-> 502]

UrlInputs ==
  {[raw |-> Properties(VideoOf(id), << >>).URL, parts |-> id,
    decoded |-> << >>] : id \in Identifiers}

UrlInit ==
  /\ Constructed
  /\ codec \in UrlInputs

\* the record with this URL read by get_existing_video_ids
Extract ==
  /\ codec.decoded = << >>
  /\ codec' = [codec EXCEPT
                 !.decoded = <<AddIds({}, <<[URL |-> codec.raw]>>)>>]
  /\ UNCHANGED <<pc, run, cfg, clock, store, channel_type_map,
                 existing_video_ids, has_more, next_cursor, i,
                 new_video_ids, video_snippets, videos, w, success_count,
                 failed_count, total_success, total_failed, api_calls_made,
                 created, escaped, attempts, prefetched, last, calls,
                 answer, origin, read_all>>

UrlNext == Extract

UrlSpec == UrlInit /\ [][UrlNext]_vars

(***************************************************************************)
(* parse_duration on its own (lines 198-228): the function applied to a    *)
(* text, which is any short text over a few characters or the encoding of  *)
(* hours, minutes and seconds, each given or left out.                     *)
(***************************************************************************)
Alphabet == {"P", "T", "5", "M", "S", "x"}

Texts == UNION {[1..n -> Alphabet] : n \in 0..MaxText}

Durations3 ==
  ((-1)..MaxHours) \X ((-1)..MaxPart) \X ((-1)..MaxPart)

CodecInputs ==
  {[raw |-> t, parts |-> << >>, decoded |-> -1] : t \in Texts}
    \cup {[raw |-> Encode(d), parts |-> d, decoded |-> -1] : d \in Durations3}

CodecInit ==
  /\ Constructed
  /\ codec \in CodecInputs

\* the call parse_duration(duration_str) and its return value
Decode ==
  /\ codec.decoded = -1
  /\ codec' = [codec EXCEPT !.decoded = parse_duration(codec.raw)]
  /\ UNCHANGED <<pc, run, cfg, clock, store, channel_type_map,
                 existing_video_ids, has_more, next_cursor, i,
                 new_video_ids, video_snippets, videos, w, success_count,
                 failed_count, total_success, total_failed, api_calls_made,
                 created, escaped, attempts, prefetched, last, calls,
                 answer, origin, read_all>>

CodecNext == Decode

CodecSpec == CodecInit /\ [][CodecNext]_vars


(***************************************************************************)
(* Properties.                                                             *)
(***************************************************************************)
\* main() is in or past its loop over the channels
InLoop == pc \in {"resolve", "feed", "detail", "write", "merge", "summary",
                  "done", "aborted"}

\* the identifiers of the writes attempted by this run
Attempted == {attempts[k].video_id : k \in 1..Len(attempts)}

\* the writes attempted for the channel being processed
ChannelAttempts == SelectSeq(attempts, LAMBDA a : a.ch = i)

\* C1: over runs that all ran to their end, and whatever calls fail, no
\* identifier is stored by the system more than once.
C1_NoIdentifierStoredTwice ==
  ~escaped =>
    \A a, b \in 1..Len(created) : a # b => created[a] # created[b]

\* C2: when a channel is scanned, the seen set holds the identifiers of
\* all videos handed to the writer by the earlier channels of the run, and
\* no identifier is submitted for a write by two channels of a run.
C2_NoResubmissionAcrossChannels ==
  /\ pc \in {"resolve", "feed", "detail"} =>
       Attempted \subseteq existing_video_ids
  /\ \A a, b \in 1..Len(attempts) :
       attempts[a].video_id = attempts[b].video_id =>
         attempts[a].ch = attempts[b].ch

C2_Witness ==
  /\ pc = "write"
  /\ i = 2
  /\ \E k \in 1..Len(attempts) : attempts[k].ch = 1

\* C3: every identifier of the seen set was read by the prefetch or is
\* that of a video whose write succeeded in this run.
C3_SeenIsPrefetchedOrWritten ==
  InLoop =>
    existing_video_ids \subseteq
      prefetched \cup {attempts[k].video_id :
                         k \in {n \in 1..Len(attempts) :
                                  attempts[n].outcome = "ok"}}

\* C4: no failure while a channel is processed ends the run before its
\* summary.
C4_RunNeverAborted == pc # "aborted"

\* C5: a channel whose resolution fails (no item, or the call raises) ends
\* with no further call and no write, leaves the seen set, the store and
\* the totals as they were, and main() goes on to the next channel, or to
\* the summary after the last one.
C5_UnresolvedChannelIsSkipped ==
  [][(pc = "resolve" /\ last'.api = "channels" /\ last'.outcome # "ok") =>
       /\ existing_video_ids' = existing_video_ids
       /\ total_success' = total_success
       /\ total_failed' = total_failed
       /\ store' = store
       /\ attempts' = attempts
       /\ calls'.create = calls.create
       /\ calls'.platform = calls.platform + 1
       /\ IF i < Len(cfg.CHANNEL_IDS)
          THEN pc' = "resolve" /\ i' = i + 1
          ELSE pc' = "summary"]_vars

C5_Witness ==
  /\ pc = "summary"
  /\ last.api = "channels"
  /\ last.outcome = "error"
  /\ total_success = 1

\* C6: the writer attempts one write per video of its input, in input
\* order, whatever the earlier outcomes; a failed write counts as a
\* failure, and on return success_count + failed_count is the number of
\* videos.
C6_OneAttemptPerVideo ==
  pc \in {"write", "merge"} =>
    LET n == IF pc = "merge" THEN Len(videos) ELSE w - 1
    IN  /\ Len(ChannelAttempts) = n
        /\ \A k \in 1..n : ChannelAttempts[k].video_id = videos[k].video_id
        /\ success_count + failed_count = n
        /\ failed_count =
             Cardinality({k \in 1..n : ChannelAttempts[k].outcome = "failed"})

C6_Witness ==
  /\ pc = "merge"
  /\ Len(videos) = 2
  /\ ChannelAttempts[1].outcome = "failed"
  /\ ChannelAttempts[2].outcome = "ok"

\* C7: a failed page ends the read, which returns what the pages before it
\* gave, and the run goes on: after the mappings to the read of the
\* identifiers, after the identifiers to the loop over the channels.
C7_FailedPageKeepsAccumulated ==
  [][/\ (pc = "map" /\ last'.api = "mappings" /\ last'.outcome = "error") =>
          /\ channel_type_map' = channel_type_map
          /\ pc' = "ids"
     /\ (pc = "ids" /\ last'.api = "ids" /\ last'.outcome = "error") =>
          /\ existing_video_ids' = existing_video_ids
          /\ pc' = "resolve"]_vars

C7_Witness ==
  /\ pc = "resolve"
  /\ last.api = "ids"
  /\ last.outcome = "error"
  /\ existing_video_ids # {}

\* C8: a run with a credential missing or without channels makes no call:
\* no query of the store, no write, no call of the platform.
C8_NoWorkWithoutConfiguration ==
  (\/ ~cfg.YOUTUBE_API_KEY
   \/ ~cfg.NOTION_TOKEN
   \/ ~cfg.NOTION_DB_ID
   \/ cfg.CHANNEL_IDS = << >>) =>
    /\ calls = NoCalls
    /\ attempts = << >>
    /\ pc \in {"build", "halted"}

C8_Witness ==
  /\ pc = "halted"
  /\ cfg.CHANNEL_IDS = << >>
  /\ store # << >>

\* C9: every video handed to the writer has a decoded duration above 300
\* seconds and was published at most 24 hours before the run.
C9_QualifiedVideos ==
  /\ \A k \in 1..Len(videos) :
       /\ videos[k].duration_seconds > 300
       /\ videos[k].published_at >= clock - 24
  /\ \A k \in 1..Len(attempts) :
       /\ attempts[k].properties.Length > 500
       /\ attempts[k].properties.Date >= clock - 24

C9_Witness ==
  /\ pc = "write"
  /\ videos[w].duration_seconds = 301
  /\ videos[w].published_at = clock - 24

\* C10: the record of a video carries the Type of its channel when the
\* channel name is a key of the category map, and no Type property
\* otherwise.
C10_TypeOnlyWhenMapped ==
  \A k \in 1..Len(attempts) :
    LET p == attempts[k].properties
    IN  IF p.Channel \in DOMAIN channel_type_map
        THEN "Type" \in DOMAIN p /\ p.Type = channel_type_map[p.Channel]
        ELSE "Type" \notin DOMAIN p

C10_Witness ==
  \E a, b \in 1..Len(attempts) :
    /\ "Type" \in DOMAIN attempts[a].properties
    /\ attempts[a].properties.Type = Tech
    /\ "Type" \notin DOMAIN attempts[b].properties

\* the items of a feed that come before its first item published before
\* the window, without those of `known`
RECURSIVE Unknown(_, _, _)
Unknown(feed, known, since) ==
  IF feed = << >> \/ Head(feed).publishedAt < since THEN << >>
  ELSE (IF Head(feed).videoId \in known THEN << >> ELSE <<Head(feed)>>)
       \o Unknown(Tail(feed), known, since)

\* the identifiers of a sequence of feed items
IdsOf(items) == [k \in 1..Len(items) |-> items[k].videoId]

\* the elements of a sequence
Range(seq) == {seq[k] : k \in 1..Len(seq)}

\* the step is a call of the platform or of the store
FeedAnswered ==
  pc = "feed" /\ calls'.platform = calls.platform + 1 /\ last'.outcome = "ok"

DetailsAnswered ==
  pc = "detail" /\ calls'.platform = calls.platform + 1
                /\ last'.outcome = "ok"

WriteAttempted == pc = "write" /\ calls'.create = calls.create + 1

\* C11: a run that follows a terminated run and whose read of the
\* identifiers saw every page writes no identifier stored before it, and
\* it still collects every in-window item of a feed that is neither stored
\* nor already handed to the writer, keeps every collected item whose
\* details give more than 300 seconds, and attempts the write of each.
C11_ResumeAfterTermination ==
  [][(origin.resumed /\ read_all) =>
       /\ WriteAttempted =>
            /\ videos[w].video_id \notin origin.ids
            /\ attempts' # attempts
            /\ attempts'[Len(attempts')].video_id = videos[w].video_id
       /\ FeedAnswered =>
            Range(IdsOf(Unknown(answer', origin.ids \cup Attempted,
                                clock - WindowHours)))
              \subseteq Range(new_video_ids')
       /\ DetailsAnswered =>
            \A k \in 1..Len(answer') :
              parse_duration(answer'[k].duration) > 300 =>
                \E n \in 1..Len(videos') :
                  videos'[n].video_id = answer'[k].id]_vars

C11_Witness ==
  /\ origin.resumed
  /\ read_all
  /\ origin.ids # {}
  /\ pc = "merge"
  /\ attempts[Len(attempts)].outcome = "ok"

\* C12: every run that has passed its set-up reaches its summary: the two
\* reads and the loop over the channels come to an end.
C12_RunReachesSummary ==
  \A r \in 1..MaxRuns :
    (run = r /\ pc = "map") ~> (run = r /\ pc \in {"summary", "done"})

\* the position of an identifier in a sequence of identifiers
PosIn(seq, id) == CHOOSE k \in 1..Len(seq) : seq[k] = id

\* C13: the scan takes the items of the feed in their order and ends at the
\* first item published more than 24 hours ago: neither that item nor any
\* item after it is collected, in the window or not.
C13_ScanStopsAtFirstOldItem ==
  [][FeedAnswered =>
       LET feed == answer'
           ids == IdsOf(feed)
       IN  /\ \A k \in 1..Len(feed) :
                (\E j \in 1..k : feed[j].publishedAt < clock - WindowHours) =>
                  feed[k].videoId \notin Range(new_video_ids')
           /\ Range(new_video_ids') \subseteq Range(ids)
           /\ \A a, b \in 1..Len(new_video_ids') :
                a < b => PosIn(ids, new_video_ids'[a])
                           < PosIn(ids, new_video_ids'[b])]_vars

C13_Witness ==
  /\ last = [api |-> "playlistItems", outcome |-> "ok"]
  /\ Len(answer) = 2
  /\ answer[1].publishedAt < clock - WindowHours
  /\ answer[2].publishedAt >= clock - WindowHours
  /\ answer[2].videoId \notin existing_video_ids
  /\ new_video_ids = << >>

\* C14: a channel gets one detail lookup when its scan collected a
\* candidate and none otherwise; the lookup is for the collected
\* identifiers: the in-window items of the feed that are not in the seen
\* set, an item of the seen set being passed over without ending the scan.
C14_OneLookupForTheCandidates ==
  [][/\ FeedAnswered =>
          LET expected == IdsOf(Unknown(answer', existing_video_ids,
                                        clock - WindowHours))
          IN  /\ (pc' = "detail") <=> (expected # << >>)
              /\ pc' = "detail" => new_video_ids' = expected
     /\ (calls'.platform = calls.platform + 1 /\ last'.api = "videos") =>
          /\ pc = "detail"
          /\ pc' # "detail"
          /\ new_video_ids # << >>
          /\ Range(new_video_ids) \cap existing_video_ids = {}
     /\ (pc' = "detail" /\ pc # "detail") => pc = "feed"]_vars

C14_Witness ==
  /\ pc = "detail"
  /\ Len(answer) = 2
  /\ answer[1].videoId \in existing_video_ids
  /\ new_video_ids = <<answer[2].videoId>>

\* the identifiers of the items of a detail response
Returned(response) == {response[k].id : k \in 1..Len(response)}

\* C15: a candidate for which the detail lookup returned no item is not in
\* the result of the lookup and is not written; no video is kept with a
\* duration of 0.
C15_CandidateWithoutDetailsIsDropped ==
  [][/\ DetailsAnswered =>
          \A n \in 1..Len(videos') :
            /\ videos'[n].video_id \in Returned(answer')
            /\ videos'[n].duration_seconds # 0
     /\ WriteAttempted =>
          /\ videos[w].duration_seconds # 0
          /\ attempts'[Len(attempts')].video_id = videos[w].video_id
          /\ attempts'[Len(attempts')].properties.Length # 0]_vars

C15_Witness ==
  /\ pc = "write"
  /\ Len(new_video_ids) = 2
  /\ Len(answer) = 1
  /\ Len(videos) = 1
  /\ videos[1].video_id \in Returned(answer)

\* C16: the qualified videos of a channel, and so its writes, are in the
\* order in which the feed scan collected them, whatever the order of the
\* items of the detail response.
C16_OutputKeepsFeedOrder ==
  pc = "write" =>
    \A a, b \in 1..Len(videos) :
      a < b => PosIn(new_video_ids, videos[a].video_id)
                 < PosIn(new_video_ids, videos[b].video_id)

\* C17: within a run the seen set only grows; in the channel loop it
\* changes only when a channel's write batch has returned, not during the
\* feed scan, the detail lookup or the writes; a write is attempted only for
\* an identifier that is not in the seen set, the set being the one the
\* scan tested it against.
C17_SeenSetGrowsAfterBatchOnly ==
  [][/\ run' = run =>
          /\ existing_video_ids \subseteq existing_video_ids'
          /\ (pc \in {"resolve", "feed", "detail", "write", "summary"}) =>
               existing_video_ids' = existing_video_ids
          /\ (existing_video_ids' # existing_video_ids) =>
               pc \in {"ids", "merge"}
          /\ (pc = "merge" /\ pc' # "merge") =>
               \A k \in 1..Len(videos) :
                 videos[k].video_id \in existing_video_ids'
     /\ FeedAnswered =>
          Range(new_video_ids') \cap existing_video_ids = {}
     /\ WriteAttempted =>
          videos[w].video_id \notin existing_video_ids]_vars

C17_Witness ==
  /\ pc = "merge"
  /\ i = 2
  /\ existing_video_ids # {}
  /\ attempts[Len(attempts)].ch = 2
  /\ attempts[Len(attempts)].video_id \notin existing_video_ids

\* the phases of a run, in their order
Phase(p) ==
  IF p \in {"idle", "build"} THEN 0
  ELSE IF p = "map" THEN 1
  ELSE IF p = "ids" THEN 2
  ELSE IF p \in {"resolve", "feed", "detail", "write", "merge"} THEN 3
  ELSE IF p = "summary" THEN 4
  ELSE 5

\* C18: the phases of a run follow one another and none is entered twice:
\* the category-map read, then the seen-id read, then the channels, then
\* the summary; the store is queried in the two reads only, the category
\* map does not change once its read has returned, and the summary comes
\* after the last channel.
C18_PhasesInSequence ==
  [][run' = run =>
       /\ Phase(pc) <= Phase(pc')
       /\ (Phase(pc') = 2 /\ Phase(pc) # 2) => Phase(pc) = 1
       /\ (Phase(pc') = 3 /\ Phase(pc) # 3) => Phase(pc) = 2
       /\ (Phase(pc') = 4 /\ Phase(pc) # 4) =>
            (Phase(pc) = 3 /\ i = Len(cfg.CHANNEL_IDS))
       /\ (calls'.query # calls.query) => Phase(pc) \in {1, 2}
       /\ Phase(pc) >= 2 => channel_type_map' = channel_type_map
       /\ Phase(pc) >= 3 => calls'.query = calls.query]_vars

C18_Witness ==
  /\ pc = "summary"
  /\ Len(cfg.CHANNEL_IDS) = 2
  /\ i = 2
  /\ calls.query >= 2
  /\ channel_type_map # << >>
  /\ attempts # << >>

\* a text of the form PT, digits H, digits M, digits S, each of the three
\* components there or not, and nothing else
IsGroup(t, letter) ==
  \/ t = << >>
  \/ /\ Len(t) >= 2
     /\ t[Len(t)] = letter
     /\ \A k \in 1..(Len(t) - 1) : t[k] \in DigitSet

WellFormed(s) ==
  /\ Len(s) >= 2
  /\ s[1] = "P"
  /\ s[2] = "T"
  /\ \E a, b \in 2..Len(s) :
       /\ a <= b
       /\ IsGroup(SubSeq(s, 3, a), "H")
       /\ IsGroup(SubSeq(s, a + 1, b), "M")
       /\ IsGroup(SubSeq(s, b + 1, Len(s)), "S")

\* C19: parse_duration returns a number for every text, and 0 for every
\* text that is empty or not a well-formed hour/minute/second token.
C19_MalformedYieldsZero ==
  codec.decoded # -1 =>
    /\ codec.decoded >= 0
    /\ ~WellFormed(codec.raw) => codec.decoded = 0

\* a component left out counts as 0
Given(val) == IF val < 0 THEN 0 ELSE val

\* C20: parse_duration of the encoding of hours, minutes and seconds, any
\* of them left out, is 3600 * hours + 60 * minutes + seconds.
C20_EncodingDecodes ==
  (codec.parts # << >> /\ codec.decoded # -1) =>
    /\ codec.raw = Encode(codec.parts)
    /\ codec.decoded = 3600 * Given(codec.parts[1])
                         + 60 * Given(codec.parts[2]) + Given(codec.parts[3])

C20_Witness ==
  /\ codec.parts = <<-1, 5, 30>>
  /\ codec.raw = <<"P", "T", "5", "M", "3", "0", "S">>
  /\ codec.decoded = 330

\* the records of the read that give a mapping: name and category not
\* empty once the blanks around them are removed
Mapping(r) ==
  /\ Strip(r.Channel) # << >>
  /\ "Type" \in DOMAIN r
  /\ Strip(r.Type) # << >>

\* the read has returned after its last page (no page failed)
MappingsRead ==
  pc = "ids" /\ last = [api |-> "mappings", outcome |-> "ok"]

\* C21: the category map holds entries only for records with a name and a
\* category, both not empty; after a read of all pages it holds, for every
\* name of such a record, the category of the last such record in read
\* order.
C21_LastRecordWins ==
  LET read == MappingRecords(clock)
      giving == {k \in 1..Len(read) : Mapping(read[k])}
  IN  /\ \A name \in DOMAIN channel_type_map :
           /\ name # << >>
           /\ channel_type_map[name] # << >>
           /\ \E k \in giving :
                /\ Strip(read[k].Channel) = name
                /\ Strip(read[k].Type) = channel_type_map[name]
      /\ MappingsRead =>
           \A k \in giving :
             LET name == Strip(read[k].Channel)
             IN  /\ name \in DOMAIN channel_type_map
                 /\ (\A n \in giving :
                       Strip(read[n].Channel) = name => n <= k) =>
                      channel_type_map[name] = Strip(read[k].Type)

C21_Witness ==
  /\ MappingsRead
  /\ Len(store) = 3
  /\ store[1] = ManualRecord
  /\ \A k \in 2..3 : "Type" \in DOMAIN store[k] /\ store[k].Channel = Foo
  /\ store[2].Type = News \o Blank
  /\ store[3].Type = Blank
  /\ channel_type_map = (Foo :> News)

\* C22: the identifier read back from the URL written for an identifier
\* of 11 characters of [a-zA-Z0-9_-] is that identifier: the seen-id read
\* finds the record, under the identifier it was written for.
C22_WrittenUrlReadsBack ==
  /\ Len(codec.parts) = IdLen
  /\ \A k \in 1..IdLen : codec.parts[k] \in IdChars
  /\ codec.decoded # << >> => codec.decoded[1] = {codec.parts}

C22_Witness ==
  /\ codec.decoded = <<{codec.parts}>>
  /\ codec.parts[1] = "v"
  /\ codec.parts[2] = "-"
  /\ codec.parts[3] = "_"
  /\ codec.parts[IdLen] = "w"

====
